---- MODULE Spec2Model ----
(***************************************************************************)
(* Model of src/src/index.ts: a poller that lists the running docker       *)
(* images, resolves for each the newest matching Docker Hub tag and posts  *)
(* a notification when that tag differs from the running one.              *)
(*                                                                         *)
(* Strings the code inspects character by character (image references,     *)
(* tag names) are sequences of one-character strings.                      *)
(***************************************************************************)
EXTENDS Integers, Sequences, FiniteSets, TLC

VARIABLES
    \* a single call of findLatestMatchingTag (MatchSpec)
    allTags,         \* its `tags` argument
    baseTag,         \* its `baseTag` argument
    matchResult,     \* what the call returned
    \* the environment of the process
    dockerPs,        \* the lines `docker ps --format {{.Image}}` prints
    registry,        \* Docker Hub: repository -> its tags, in serving order
    versionFile,     \* content of ./data/versions.json
    channel,         \* the embeds the Discord channel has received
    faults,          \* failures of the environment so far
    \* the process
    versionData,     \* module variable versionData
    dockerHubCache,  \* module variable dockerHubCache
    cycles,          \* the calls of checkForNewVersions, one record each
    \* history, read by the properties only
    cacheWrites,     \* repository -> number of assignments to its cache entry
    completed,       \* repositories some fetch has read to the last page
    resolved,        \* running images a latest tag has been resolved for
    lastEval         \* the latest per-image evaluation

matchVars == <<allTags, baseTag, matchResult>>
envVars   == <<dockerPs, registry, versionFile, channel, faults>>
procVars  == <<versionData, dockerHubCache, cycles>>
histVars  == <<cacheWrites, completed, resolved, lastEval>>
vars      == <<matchVars, envVars, procVars, histVars>>

----------------------------------------------------------------------------
(* Bounds of the model *)

\* longest catalog handed to findLatestMatchingTag in MatchSpec
MaxCatLen == 3

\* calls of checkForNewVersions: the one of client.once("ready") and the
\* ticks of setInterval that follow it
MaxCycles == 2

\* most embeds one call queues in SendSpec
MaxEmbeds == 25

\* failures of the environment in one run: docker ps, the Discord client,
\* Docker Hub and the file system together
MaxFaults == 1

\* tags per page of the registry's answer (page_size=100 in the code, scaled
\* down with the catalogs)
PageSize == 2

----------------------------------------------------------------------------
(* String primitives *)

Digits == {"0", "1", "2", "3", "4", "5", "6", "7", "8", "9"}

DigitVal(c) ==
    CASE c = "0" -> 0 [] c = "1" -> 1 [] c = "2" -> 2 [] c = "3" -> 3
      [] c = "4" -> 4 [] c = "5" -> 5 [] c = "6" -> 6 [] c = "7" -> 7
      [] c = "8" -> 8 [] c = "9" -> 9

\* String.prototype.startsWith
startsWith(s, p) ==
    /\ Len(p) <= Len(s)
    /\ \A i \in 1..Len(p) : s[i] = p[i]

\* String.prototype.includes for a one-character needle
includes(s, c) == \E i \in 1..Len(s) : s[i] = c

\* index of the first occurrence of c in s, 0 when there is none
indexOf(s, c) ==
    IF includes(s, c)
    THEN CHOOSE i \in 1..Len(s) : s[i] = c /\ \A j \in 1..(i - 1) : s[j] # c
    ELSE 0

\* null where a string is expected: no sequence of characters equals it
null == <<"null">>

----------------------------------------------------------------------------
(* semver.coerce, semver.valid, semver.rcompare *)

\* end of the maximal run of digits of s that starts at i
RunEnd(s, i) ==
    CHOOSE j \in i..Len(s) :
        /\ \A k \in i..j : s[k] \in Digits
        /\ (j = Len(s) \/ s[j + 1] \notin Digits)

RECURSIVE NumVal(_, _, _)
\* the decimal number written by s[i..j]
NumVal(s, i, j) ==
    IF j < i THEN 0 ELSE NumVal(s, i, j - 1) * 10 + DigitVal(s[j])

\* null where a SemVer object is expected
nullVersion == [major |-> -1, minor |-> -1, patch |-> -1]

\* semver.coerce: the first digit run of the string is the major version, an
\* immediately following ".digits" the minor, a second one the patch; whatever
\* follows (a third ".digits", a "-rc1" suffix) is dropped.  null when the
\* string holds no digit.  (Digit runs stay far below the 16 digits and the
\* MAX_SAFE_INTEGER that semver limits them to.)
coerce(s) ==
    IF \A i \in 1..Len(s) : s[i] \notin Digits THEN nullVersion
    ELSE
      LET p  == CHOOSE i \in 1..Len(s) :
                  s[i] \in Digits /\ \A j \in 1..(i - 1) : s[j] \notin Digits
          e1 == RunEnd(s, p)
          hasMinor == /\ e1 + 2 <= Len(s)
                      /\ s[e1 + 1] = "."
                      /\ s[e1 + 2] \in Digits
          e2 == IF hasMinor THEN RunEnd(s, e1 + 2) ELSE e1
          hasPatch == /\ hasMinor
                      /\ e2 + 2 <= Len(s)
                      /\ s[e2 + 1] = "."
                      /\ s[e2 + 2] \in Digits
          e3 == IF hasPatch THEN RunEnd(s, e2 + 2) ELSE e2
      IN  [major |-> NumVal(s, p, e1),
           minor |-> IF hasMinor THEN NumVal(s, e1 + 2, e2) ELSE 0,
           patch |-> IF hasPatch THEN NumVal(s, e2 + 2, e3) ELSE 0]

\* semver.valid of a coerced version: null stays null
valid(v) == v # nullVersion

\* semver.compare on versions without prerelease: -1, 0 or 1
compare(a, b) ==
    IF a.major # b.major THEN (IF a.major < b.major THEN -1 ELSE 1)
    ELSE IF a.minor # b.minor THEN (IF a.minor < b.minor THEN -1 ELSE 1)
    ELSE IF a.patch # b.patch THEN (IF a.patch < b.patch THEN -1 ELSE 1)
    ELSE 0

rcompare(a, b) == compare(b, a)

----------------------------------------------------------------------------
(* Date parsing and Array.prototype.sort *)

\* the last_updated strings the registry serves in this model
d1 == "2024-01-01T00:00:00Z"
d2 == "2024-02-01T00:00:00Z"
d3 == "2024-03-01T00:00:00Z"

\* new Date(s).getTime(), in days since the epoch instead of milliseconds
getTime(s) ==
    CASE s = d1 -> 19723
      [] s = d2 -> 19754
      [] s = d3 -> 19783

\* the comparator of the "latest" branch with a and b exchanged
byUpdatedAsc(a, b) == getTime(a.updated) - getTime(b.updated)

\* the comparator of the "latest" branch
byUpdatedDesc(a, b) == getTime(b.updated) - getTime(a.updated)

\* the comparator of the version-family branch
byVersionDesc(a, b) == rcompare(a.version, b.version)

\* the comparator handed to sort
cmp(a, b, order) ==
    IF order = "updated" THEN byUpdatedDesc(a, b) ELSE byVersionDesc(a, b)

\* the elements of s in sorted order: s[i] comes after the elements that sort
\* before it and after the equal ones that precede it in s
sorted(s, order) ==
    LET before(j, i) ==
            \/ cmp(s[j], s[i], order) < 0
            \/ (cmp(s[j], s[i], order) = 0 /\ j < i)
        rank(i) == Cardinality({j \in 1..Len(s) : before(j, i)}) + 1
    IN  [k \in 1..Len(s) |-> s[CHOOSE i \in 1..Len(s) : rank(i) = k]]

\* Array.prototype.sort(comparator), a stable sort
sort(s, order) == CHOOSE r \in { sorted(v, order) : v \in {s} } : TRUE

----------------------------------------------------------------------------
(* findLatestMatchingTag *)

latest == <<"l", "a", "t", "e", "s", "t">>

\* t.tag coerced, beside the tag and its date
candidate(t) ==
    [tag |-> t.tag, version |-> coerce(t.tag), updated |-> t.updated]

\* the candidates with the test of semver.valid left out
semverCandidatesUnfiltered(ts) == [k \in 1..Len(ts) |-> candidate(ts[k])]

\* the tags that coerce to a version, each with its coerced version
semverCandidates(ts) ==
    LET coercible(t) == valid(coerce(t.tag))
    IN  CHOOSE r \in { [k \in 1..Len(kept) |-> candidate(kept[k])] :
                        kept \in {SelectSeq(ts, coercible)} } : TRUE

\* the family filter with the separators forgotten: any tag that starts with
\* the running tag
inFamilyNoSeparator(t, base) == startsWith(t.tag, base)

\* the family filter of the second branch
inFamily(t, base) ==
    \/ startsWith(t.tag, base \o <<".">>)
    \/ t.tag = base
    \/ startsWith(t.tag, base \o <<"-">>)

filterFamily(ts, base) ==
    LET member(t) == inFamily(t, base) IN SelectSeq(ts, member)

\* list.length > 0 ? list[0].tag : null
firstTag(list) == IF Len(list) > 0 THEN list[1].tag ELSE null

findLatestMatchingTag(ts, base) ==
    IF base = latest
    THEN firstTag(sort(semverCandidates(ts), "updated"))
    ELSE firstTag(sort(filterFamily(semverCandidates(ts), base), "version"))

----------------------------------------------------------------------------
(* The environment: running containers and Docker Hub *)

nginx   == <<"n", "g", "i", "n", "x">>
redis   == <<"r", "e", "d", "i", "s">>
library == <<"l", "i", "b", "r", "a", "r", "y", "/">>

\* possible outputs of `docker ps --format {{.Image}}`, one line per container
PsOutputs ==
    { <<nginx \o <<":", "1">>, nginx \o <<":", "2", ".", "0">>>>,
      <<redis, nginx \o <<":", "1">>, redis>>,
      <<library \o nginx \o <<":", "1">>, nginx \o <<":", "1">>>> }

Repositories == {library \o nginx, library \o redis}

\* what Docker Hub serves when the process starts
InitialRegistry ==
    (library \o nginx) :> << [name |-> <<"1", ".", "0">>, last_updated |-> d1],
                            [name |-> <<"2", ".", "0">>, last_updated |-> d1] >>
 @@ (library \o redis) :> << [name |-> <<"7", ".", "0">>, last_updated |-> d1] >>

\* the tag each repository publishes next, while the process runs
NextRelease ==
    (library \o nginx) :> [name |-> <<"1", ".", "1">>, last_updated |-> d2]
 @@ (library \o redis) :> [name |-> <<"7", ".", "1">>, last_updated |-> d2]

----------------------------------------------------------------------------
(* Objects used as maps *)

emptyObject == <<>>

\* obj[k] = v
set(obj, k, v) == (k :> v) @@ obj

has(obj, k) == k \in DOMAIN obj

emptyVersionMap == [images |-> emptyObject, announced |-> emptyObject]

\* versionData.announced[image]: undefined is falsy
announcedOf(vd, image) == has(vd.announced, image) /\ vd.announced[image]

\* versionData.images[image]: undefined equals no tag
imageOf(vd, image) == IF has(vd.images, image) THEN vd.images[image] ELSE null

\* loadVersionData: the parsed file, or the empty map when it cannot be read
loadVersionData(file) == IF file.readable THEN file.data ELSE emptyVersionMap

\* a save that writes the empty map instead of versionData
saveEmptyMap(vd) == [readable |-> TRUE, data |-> emptyVersionMap]

\* saveVersionData: the file as rewritten from versionData
saveVersionData(vd) == [readable |-> TRUE, data |-> vd]

----------------------------------------------------------------------------
(* getRunningDockerImages, normalizeDockerHubName, chunkArray *)

RECURSIVE uniqueFrom(_, _)
uniqueFrom(lines, i) ==
    IF i > Len(lines) THEN <<>>
    ELSE IF \A j \in 1..(i - 1) : lines[j] # lines[i]
         THEN <<lines[i]>> \o uniqueFrom(lines, i + 1)
         ELSE uniqueFrom(lines, i + 1)

\* Array.from(new Set(lines)): first occurrences, in order
unique(lines) == uniqueFrom(lines, 1)

\* const [image, tag = "latest"] = fullImage.split(":")
splitImage(fullImage) ==
    LET c1   == indexOf(fullImage, ":")
        rest == SubSeq(fullImage, c1 + 1, Len(fullImage))
        c2   == indexOf(rest, ":")
    IN  IF c1 = 0 THEN [image |-> fullImage, tag |-> latest]
        ELSE [image |-> SubSeq(fullImage, 1, c1 - 1),
              tag   |-> IF c2 = 0 THEN rest ELSE SubSeq(rest, 1, c2 - 1)]

\* listed = FALSE: execSync threw and the catch returned []
getRunningDockerImages(lines, listed) ==
    IF listed
    THEN LET u == unique(lines) IN [i \in 1..Len(u) |-> splitImage(u[i])]
    ELSE <<>>

normalizeDockerHubName(image) ==
    IF includes(image, "/") THEN image ELSE library \o image

\* embeds per channel.send
ChunkSize == 10

RECURSIVE chunksFrom(_, _, _)
\* for (let i = ...; i < array.length; i += size) result.push(array.slice(i, i + size))
chunksFrom(array, size, i) ==
    IF i > Len(array) THEN <<>>
    ELSE <<SubSeq(array, i, IF i + size - 1 < Len(array)
                            THEN i + size - 1 ELSE Len(array))>>
         \o chunksFrom(array, size, i + size)

\* the whole array as one chunk, whatever the size
chunkArrayWhole(array, size) == IF Len(array) = 0 THEN <<>> ELSE <<array>>

chunkArray(array, size) == chunksFrom(array, size, 1)

----------------------------------------------------------------------------
(* One call of checkForNewVersions *)

Cycles == 1..MaxCycles

\* a call that has not started, or has returned
idleCycle ==
    [pc            |-> "idle",
     runningImages |-> <<>>,    \* const runningImages
     i             |-> 0,       \* position of the for loop in runningImages
     embeds        |-> <<>>,    \* const embeds
     tags          |-> <<>>,    \* getAllDockerHubTags: const tags, then its result
     page          |-> 0,       \* getAllDockerHubTags: let page
     chunks        |-> <<>>,    \* chunks not yet delivered; the first is in flight
     sent          |-> <<>>,    \* history: chunks delivered by this call
     fromCache     |-> FALSE,   \* history: the current image's tags came from the cache
     fetchFailed   |-> FALSE,   \* history: the current image's fetch was answered !ok
     errors        |-> {},      \* history: positions whose iteration met a failure
     overlapped    |-> FALSE,   \* history: another call was in progress at the start
     abortedBy     |-> "none"]  \* history: the rejection that ended the call

\* the registry's answer to page `page` of a repository's tag list
pageOf(catalog, page) ==
    LET from == (page - 1) * PageSize + 1
        to   == IF page * PageSize < Len(catalog)
                THEN page * PageSize ELSE Len(catalog)
    IN  [results |-> SubSeq(catalog, from, to),
         next    |-> page * PageSize < Len(catalog)]

\* for (const result of data.results) tags.push({tag: result.name, ...})
pushResults(ts, results) ==
    ts \o [k \in 1..Len(results) |->
              [tag |-> results[k].name, updated |-> results[k].last_updated]]

\* getAllDockerHubTags without the look into the cache: page 1 is requested
\* on every call
callAlwaysFetches(rec, cache) ==
    [rec EXCEPT !.pc = "awaitFetch", !.tags = <<>>, !.page = 1,
                !.fromCache = FALSE, !.fetchFailed = FALSE]

\* getAllDockerHubTags up to its first await: the cached list, or page 1 requested
callGetAllDockerHubTags(rec, cache) ==
    LET id == normalizeDockerHubName(rec.runningImages[rec.i].image)
    IN  IF has(cache, id)
        THEN [rec EXCEPT !.pc = "awaitMatch", !.tags = cache[id],
                         !.fromCache = TRUE, !.fetchFailed = FALSE]
        ELSE [rec EXCEPT !.pc = "awaitFetch", !.tags = <<>>, !.page = 1,
                         !.fromCache = FALSE, !.fetchFailed = FALSE]

\* the locals of getAllDockerHubTags are gone once the for loop is left
afterLoop(rec) ==
    [rec EXCEPT !.tags = <<>>, !.page = 0,
                !.fromCache = FALSE, !.fetchFailed = FALSE]

\* behind the for loop: the first chunk is sent, or the call returns
sendEmbeds(rec) ==
    IF Len(rec.embeds) > 0
    THEN [afterLoop(rec) EXCEPT !.pc = "awaitSend",
                                !.chunks = chunkArray(rec.embeds, ChunkSize)]
    ELSE [afterLoop(rec) EXCEPT !.pc = "done"]

\* the head of the for loop, at position rec.i
nextImage(rec, cache) ==
    IF rec.i <= Len(rec.runningImages)
    THEN callGetAllDockerHubTags(rec, cache)
    ELSE sendEmbeds(rec)

\* the iteration for the current image ends: on to the next one
endIteration(rec, cache) == nextImage([rec EXCEPT !.i = @ + 1], cache)

\* no try around the loop body: the exception rejects checkForNewVersions
rethrowImageError(rec, cache) ==
    [rec EXCEPT !.pc = "failed", !.abortedBy = "image",
                !.errors = @ \cup {rec.i}]

\* catch (err) of the for loop's try: logged, and the loop goes on
catchImageError(rec, cache) ==
    endIteration([rec EXCEPT !.errors = @ \cup {rec.i}], cache)

\* the body without the test of announced/images: every difference notifies
evaluateWithoutSuppression(vd, image, runningTag, latestTag) ==
    IF latestTag = null
    THEN [outcome |-> "nomatch", notify |-> FALSE, versionData |-> vd]
    ELSE [outcome |-> IF runningTag # latestTag THEN "notified" ELSE "uptodate",
          notify  |-> runningTag # latestTag,
          versionData |-> [images    |-> set(vd.images, image, latestTag),
                           announced |-> set(vd.announced, image, TRUE)]]

\* the body with versionData.announced[image] = true forgotten
evaluateWithoutAnnounce(vd, image, runningTag, latestTag) ==
    IF latestTag = null
    THEN [outcome |-> "nomatch", notify |-> FALSE, versionData |-> vd]
    ELSE IF announcedOf(vd, image) /\ imageOf(vd, image) = latestTag
    THEN [outcome |-> "suppressed", notify |-> FALSE, versionData |-> vd]
    ELSE [outcome |-> IF runningTag # latestTag THEN "notified" ELSE "uptodate",
          notify  |-> runningTag # latestTag,
          versionData |-> [images    |-> set(vd.images, image, latestTag),
                           announced |-> vd.announced]]

\* the body with `if (!latest) continue` left out
evaluateWithoutNullTest(vd, image, runningTag, latestTag) ==
    IF announcedOf(vd, image) /\ imageOf(vd, image) = latestTag
    THEN [outcome |-> "suppressed", notify |-> FALSE, versionData |-> vd]
    ELSE [outcome |-> IF runningTag # latestTag THEN "notified" ELSE "uptodate",
          notify  |-> runningTag # latestTag,
          versionData |-> [images    |-> set(vd.images, image, latestTag),
                           announced |-> set(vd.announced, image, TRUE)]]

\* the body of the try behind `await getMatchingLatestTag`, up to the save
evaluateImage(vd, image, runningTag, latestTag) ==
    IF latestTag = null
    THEN [outcome |-> "nomatch", notify |-> FALSE, versionData |-> vd]
    ELSE IF announcedOf(vd, image) /\ imageOf(vd, image) = latestTag
    THEN [outcome |-> "suppressed", notify |-> FALSE, versionData |-> vd]
    ELSE [outcome |-> IF runningTag # latestTag THEN "notified" ELSE "uptodate",
          notify  |-> runningTag # latestTag,
          versionData |-> [images    |-> set(vd.images, image, latestTag),
                           announced |-> set(vd.announced, image, TRUE)]]

newEmbed(image, runningTag, latestTag) ==
    [image |-> image, current |-> runningTag, latest |-> latestTag]

----------------------------------------------------------------------------
(* Initial states *)

noFile == [readable |-> FALSE, data |-> emptyVersionMap]

\* a versions.json left by an earlier run
savedFile ==
    [readable |-> TRUE,
     data |-> [images    |-> (nginx :> <<"1", ".", "0">>),
               announced |-> (nginx :> TRUE)]]

pending == <<"pending">>

noEval ==
    [cycle |-> 0, image |-> null, runningTag |-> null, latest |-> null,
     announced |-> FALSE, images |-> null, notify |-> FALSE,
     fetchFailed |-> FALSE]

InitProcess(lines, file) ==
    /\ dockerPs = lines
    /\ registry = InitialRegistry
    /\ versionFile = file
    /\ channel = {}
    /\ faults = 0
    /\ versionData = loadVersionData(file)
    /\ dockerHubCache = emptyObject
    /\ cycles = [c \in Cycles |-> idleCycle]
    /\ cacheWrites = [id \in Repositories |-> 0]
    /\ completed = {}
    /\ resolved = {}
    /\ lastEval = noEval

InitMatch(ts, base) ==
    /\ allTags = ts
    /\ baseTag = base
    /\ matchResult = pending

Init ==
    /\ \E lines \in PsOutputs, file \in {noFile, savedFile} :
          InitProcess(lines, file)
    /\ InitMatch(<<>>, latest)

----------------------------------------------------------------------------
(* The steps of checkForNewVersions, from one await to the next *)

\* Calls start in the order of their numbers.  A call overlaps with the one
\* before it when that one is still at an await as the timer ticks; the model
\* stops at two calls in progress at once.
canStart(c) ==
    /\ cycles[c].pc = "idle"
    /\ \A b \in Cycles : b < c => cycles[b].pc # "idle"
    /\ \A b \in Cycles : b < c - 1 => cycles[b].pc \in {"done", "failed"}

\* some call of checkForNewVersions is suspended at an await
inProgress == \E b \in Cycles : cycles[b].pc \notin {"idle", "done", "failed"}

\* client.once("ready") or a tick of setInterval calls checkForNewVersions:
\* the containers are listed and the channel is requested
Start(c) ==
    /\ canStart(c)
    /\ cycles' = [cycles EXCEPT ![c] =
                     [idleCycle EXCEPT
                         !.pc = "awaitChannel",
                         !.overlapped = inProgress,
                         !.runningImages =
                             getRunningDockerImages(dockerPs, TRUE)]]
    /\ UNCHANGED <<matchVars, envVars, versionData, dockerHubCache, histVars>>

\* the same, but execSync throws: the call goes on with no image
StartListFails(c) ==
    /\ faults < MaxFaults
    /\ faults' = faults + 1
    /\ canStart(c)
    /\ cycles' = [cycles EXCEPT ![c] =
                     [idleCycle EXCEPT
                         !.pc = "awaitChannel",
                         !.overlapped = inProgress,
                         !.runningImages =
                             getRunningDockerImages(dockerPs, FALSE)]]
    /\ UNCHANGED <<matchVars, dockerPs, registry, versionFile, channel, versionData, dockerHubCache, histVars>>

\* client.channels.fetch resolves: the for loop starts
ChannelFetched(c) ==
    /\ cycles[c].pc = "awaitChannel"
    /\ cycles' = [cycles EXCEPT ![c] =
                     nextImage([cycles[c] EXCEPT !.i = 1], dockerHubCache)]
    /\ UNCHANGED <<matchVars, envVars, versionData, dockerHubCache, histVars>>

\* client.channels.fetch rejects: checkForNewVersions rejects
ChannelFetchFails(c) ==
    /\ faults < MaxFaults
    /\ faults' = faults + 1
    /\ cycles[c].pc = "awaitChannel"
    /\ cycles' = [cycles EXCEPT ![c] =
                     [cycles[c] EXCEPT !.pc = "failed", !.abortedBy = "channel"]]
    /\ UNCHANGED <<matchVars, dockerPs, registry, versionFile, channel, versionData, dockerHubCache, histVars>>

\* fetch(url) resolves with res.ok: the page is pushed; the next page is
\* requested, or the list is cached and returned
FetchOk(c) ==
    /\ cycles[c].pc = "awaitFetch"
    /\ LET rec  == cycles[c]
           id   == normalizeDockerHubName(rec.runningImages[rec.i].image)
           data == pageOf(registry[id], rec.page)
           ts   == pushResults(rec.tags, data.results)
       IN  IF data.next
           THEN /\ cycles' = [cycles EXCEPT ![c] =
                                 [rec EXCEPT !.tags = ts, !.page = @ + 1]]
                /\ UNCHANGED <<dockerHubCache, cacheWrites, completed>>
           ELSE /\ dockerHubCache' = set(dockerHubCache, id, ts)
                /\ cacheWrites' = [cacheWrites EXCEPT ![id] = @ + 1]
                /\ completed' = completed \cup {id}
                /\ cycles' = [cycles EXCEPT ![c] =
                                 [rec EXCEPT !.tags = ts, !.pc = "awaitMatch"]]
    /\ UNCHANGED <<matchVars, envVars, versionData, resolved, lastEval>>

\* fetch(url) rejects or resolves with !res.ok: the catch logs a warning and
\* the tags pushed so far are returned
FetchFails(c) ==
    /\ faults < MaxFaults
    /\ faults' = faults + 1
    /\ cycles[c].pc = "awaitFetch"
    /\ cycles' = [cycles EXCEPT ![c] =
                     [cycles[c] EXCEPT !.pc = "awaitMatch", !.fetchFailed = TRUE,
                                       !.errors = @ \cup {cycles[c].i}]]
    /\ UNCHANGED <<matchVars, dockerPs, registry, versionFile, channel, versionData, dockerHubCache, histVars>>

\* the image the for loop of call c is at
current(c) == cycles[c].runningImages[cycles[c].i]

\* what one evaluation leaves in lastEval and resolved
Evaluated(c, w, latestTag, queued) ==
    /\ lastEval' = [cycle |-> c, image |-> w.image, runningTag |-> w.tag,
                    latest |-> latestTag,
                    announced |-> announcedOf(versionData, w.image),
                    images |-> imageOf(versionData, w.image),
                    notify |-> Len(queued) > Len(cycles[c].embeds),
                    fetchFailed |-> cycles[c].fetchFailed]
    /\ resolved' = IF latestTag = null THEN resolved ELSE resolved \cup {w}

\* the embeds of rec with the one for w added when r says to notify
queue(rec, w, latestTag, r) ==
    IF r.notify
    THEN Append(rec.embeds, newEmbed(w.image, w.tag, latestTag))
    ELSE rec.embeds

\* getMatchingLatestTag resolves: the rest of the try runs, saveVersionData
\* included, and the loop goes on to the next image
Evaluate(c) ==
    /\ cycles[c].pc = "awaitMatch"
    /\ \E latestTag \in {findLatestMatchingTag(cycles[c].tags, current(c).tag)} :
       \E r \in {evaluateImage(versionData, current(c).image,
                               current(c).tag, latestTag)} :
       \E queued \in {queue(cycles[c], current(c), latestTag, r)} :
          /\ versionData' = r.versionData
          /\ versionFile' = IF r.outcome \in {"notified", "uptodate"}
                            THEN saveVersionData(r.versionData)
                            ELSE versionFile
          /\ cycles' = [cycles EXCEPT ![c] =
                           endIteration([cycles[c] EXCEPT !.embeds = queued],
                                        dockerHubCache)]
          /\ Evaluated(c, current(c), latestTag, queued)
    /\ UNCHANGED <<matchVars, dockerPs, registry, channel, faults,
                   dockerHubCache, cacheWrites, completed>>

\* the same, but fs.writeFileSync throws in saveVersionData: the embed is
\* queued and versionData set, the file is not written, the catch runs
EvaluateSaveFails(c) ==
    /\ faults < MaxFaults
    /\ faults' = faults + 1
    /\ cycles[c].pc = "awaitMatch"
    /\ \E latestTag \in {findLatestMatchingTag(cycles[c].tags, current(c).tag)} :
       \E r \in {evaluateImage(versionData, current(c).image,
                               current(c).tag, latestTag)} :
       \E queued \in {queue(cycles[c], current(c), latestTag, r)} :
          /\ r.outcome \in {"notified", "uptodate"}
          /\ versionData' = r.versionData
          /\ cycles' = [cycles EXCEPT ![c] =
                           catchImageError([cycles[c] EXCEPT !.embeds = queued],
                                           dockerHubCache)]
          /\ Evaluated(c, current(c), latestTag, queued)
    /\ UNCHANGED <<matchVars, dockerPs, registry, versionFile, channel,
                   dockerHubCache, cacheWrites, completed>>

\* channel.send resolves: the chunk is in the channel; the next chunk is
\* sent, or the call returns
SendOk(c) ==
    /\ cycles[c].pc = "awaitSend"
    /\ LET rec   == cycles[c]
           chunk == Head(rec.chunks)
       IN  /\ channel' = channel \cup {chunk[k] : k \in 1..Len(chunk)}
           /\ cycles' = [cycles EXCEPT ![c] =
                            [rec EXCEPT !.chunks = Tail(@),
                                        !.sent = Append(@, chunk),
                                        !.pc = IF Len(rec.chunks) > 1
                                               THEN "awaitSend" ELSE "done"]]
    /\ UNCHANGED <<matchVars, dockerPs, registry, versionFile, faults,
                   versionData, dockerHubCache, histVars>>

\* channel.send rejects: checkForNewVersions rejects, the rest is not sent
SendFails(c) ==
    /\ faults < MaxFaults
    /\ faults' = faults + 1
    /\ cycles[c].pc = "awaitSend"
    /\ cycles' = [cycles EXCEPT ![c] =
                     [cycles[c] EXCEPT !.pc = "failed", !.abortedBy = "send"]]
    /\ UNCHANGED <<matchVars, dockerPs, registry, versionFile, channel, versionData, dockerHubCache, histVars>>

\* the call has returned or rejected, and a later tick of the timer finds its
\* record free
Return(c) ==
    /\ cycles[c].pc \in {"done", "failed"}
    /\ cycles' = [cycles EXCEPT ![c] = idleCycle]
    /\ UNCHANGED <<matchVars, envVars, versionData, dockerHubCache, histVars>>

\* Docker Hub: a repository publishes its next tag
Publish(id) ==
    /\ \A k \in 1..Len(registry[id]) : registry[id][k].name # NextRelease[id].name
    /\ registry' = [registry EXCEPT ![id] = Append(@, NextRelease[id])]
    /\ UNCHANGED <<matchVars, dockerPs, versionFile, channel, faults, procVars,
                   histVars>>

Next ==
    \/ \E c \in Cycles : Start(c)
    \/ \E c \in Cycles : StartListFails(c)
    \/ \E c \in Cycles : ChannelFetched(c)
    \/ \E c \in Cycles : ChannelFetchFails(c)
    \/ \E c \in Cycles : FetchOk(c)
    \/ \E c \in Cycles : FetchFails(c)
    \/ \E c \in Cycles : Evaluate(c)
    \/ \E c \in Cycles : EvaluateSaveFails(c)
    \/ \E c \in Cycles : SendOk(c)
    \/ \E c \in Cycles : SendFails(c)
    \/ \E id \in Repositories : Publish(id)

Spec == Init /\ [][Next]_vars

----------------------------------------------------------------------------
(* The timer never stops: one call after the other, and nothing fails *)

FairNext ==
    \/ Start(1)
    \/ ChannelFetched(1)
    \/ FetchOk(1)
    \/ Evaluate(1)
    \/ SendOk(1)
    \/ Return(1)
    \/ \E id \in Repositories : Publish(id)

\* setInterval keeps ticking, and every request is answered
FairSpec ==
    /\ Init
    /\ [][FairNext]_vars
    /\ WF_vars(Start(1))
    /\ WF_vars(ChannelFetched(1))
    /\ WF_vars(FetchOk(1))
    /\ WF_vars(Evaluate(1))
    /\ WF_vars(SendOk(1))
    /\ WF_vars(Return(1))

----------------------------------------------------------------------------
(* The end of a call that has queued any number of embeds *)

RECURSIVE numeral(_)
\* String(k), for k >= 0
numeral(k) ==
    LET digit(d) == CHOOSE ch \in Digits : DigitVal(ch) = d
    IN  IF k < 10 THEN <<digit(k)>>
        ELSE numeral(k \div 10) \o <<digit(k % 10)>>

\* the k-th of the images running on a host with many containers
app(k) == <<"a", "p", "p">> \o numeral(k)

\* the call behind its for loop: n images run with tag "1", "2" was resolved
\* for each, an embed is queued for each and the state is set
behindLoop(n) ==
    sendEmbeds([idleCycle EXCEPT
        !.runningImages = [k \in 1..n |-> [image |-> app(k), tag |-> <<"1">>]],
        !.i      = n + 1,
        !.embeds = [k \in 1..n |-> newEmbed(app(k), <<"1">>, <<"2">>)]])

SendInit ==
    /\ \E n \in 0..MaxEmbeds :
          /\ dockerPs = [k \in 1..n |-> app(k) \o <<":", "1">>]
          /\ versionData = [images    |-> [im \in {app(k) : k \in 1..n} |-> <<"2">>],
                            announced |-> [im \in {app(k) : k \in 1..n} |-> TRUE]]
          /\ versionFile = saveVersionData(versionData)
          /\ cycles = [c \in Cycles |-> IF c = 1 THEN behindLoop(n) ELSE idleCycle]
    /\ registry = InitialRegistry
    /\ channel = {}
    /\ faults = 0
    /\ dockerHubCache = emptyObject
    /\ cacheWrites = [id \in Repositories |-> 0]
    /\ completed = {}
    /\ resolved = {}
    /\ lastEval = noEval
    /\ InitMatch(<<>>, latest)

SendNext == SendOk(1) \/ SendFails(1)

SendSpec == SendInit /\ [][SendNext]_vars

----------------------------------------------------------------------------
(* A single call of findLatestMatchingTag, on any catalog *)

\* tag names a repository may carry
TagPool ==
    { <<"2", ".", "4">>,
      <<"2", ".", "4", ".", "1">>,
      <<"2", ".", "4", ".", "9">>,
      <<"2", ".", "4", ".", "9", "-", "r", "c", "1">>,
      <<"2", ".", "4", "0">>,
      <<"2", ".", "5", ".", "0">>,
      <<"7", ".", "0", ".", "0">>,
      <<"7", ".", "2", ".", "3">>,
      <<"e", "d", "g", "e">> }

\* running tags
BaseTags ==
    { latest, latest \o <<"-", "a", "l", "p", "i", "n", "e">>,
      <<"2", ".", "4">>, <<"2">>, <<"7">>, <<"e", "d", "g", "e">> }

TagRecords == [tag : TagPool, updated : {d1, d2}]

\* the lists getAllDockerHubTags can return: a repository has no two tags of
\* one name
Catalogs ==
    { ts \in UNION { [1..n -> TagRecords] : n \in 0..MaxCatLen } :
        \A j, k \in 1..Len(ts) : j # k => ts[j].tag # ts[k].tag }

MatchInit ==
    /\ InitProcess(CHOOSE lines \in PsOutputs : TRUE, noFile)
    /\ \E ts \in Catalogs, base \in BaseTags : InitMatch(ts, base)

\* getMatchingLatestTag: return findLatestMatchingTag(allTags, baseTag)
Match ==
    /\ matchResult = pending
    /\ matchResult' = findLatestMatchingTag(allTags, baseTag)
    /\ UNCHANGED <<allTags, baseTag, envVars, procVars, histVars>>

MatchSpec == MatchInit /\ [][Match]_vars

----------------------------------------------------------------------------
(* Properties of findLatestMatchingTag (MatchSpec) *)

returned == matchResult # pending /\ matchResult # null

\* end of a leading "X.Y.Z" in s, 0 when s does not start with one
coreEnd(s) ==
    IF Len(s) = 0 \/ s[1] \notin Digits THEN 0
    ELSE LET e1 == RunEnd(s, 1)
         IN  IF ~(e1 + 2 <= Len(s) /\ s[e1 + 1] = "." /\ s[e1 + 2] \in Digits)
             THEN 0
             ELSE LET e2 == RunEnd(s, e1 + 2)
                  IN  IF ~(e2 + 2 <= Len(s) /\ s[e2 + 1] = "."
                                            /\ s[e2 + 2] \in Digits)
                      THEN 0
                      ELSE RunEnd(s, e2 + 2)

\* the tag is a version with a prerelease component: "X.Y.Z-" and a suffix
prerelease(s) ==
    LET e == coreEnd(s) IN e > 0 /\ e + 2 <= Len(s) /\ s[e + 1] = "-"

\* C9: whatever the catalog and the running tag, the tag findLatestMatchingTag
\* returns carries no prerelease component.
C9_NeverPrerelease == returned => ~prerelease(matchResult)

\* the running tag itself, a dotted sub-version of it, or a qualified variant
extends(tag, base) ==
    \/ tag = base
    \/ startsWith(tag, base \o <<".">>)
    \/ startsWith(tag, base \o <<"-">>)

----------------------------------------------------------------------------
(* Properties of the poll cycles (Spec, FairSpec) *)

\* call c queues an embed in this step
Queues(c) == Len(cycles'[c].embeds) > Len(cycles[c].embeds)

\* C1: while the registry serves what it served at the start (and the same
\* containers run), no call queues a notification for a running image that an
\* evaluation has resolved a latest tag for before.
C1_NoRenotification ==
    [][ registry = InitialRegistry =>
          \A c \in Cycles : Queues(c) => current(c) \notin resolved ]_vars

\* the running images any docker ps output of the model lists
Workloads ==
    UNION { { getRunningDockerImages(lines, TRUE)[k] :
                k \in 1..Len(getRunningDockerImages(lines, TRUE)) } :
            lines \in PsOutputs }

runs(w) ==
    \E k \in 1..Len(getRunningDockerImages(dockerPs, TRUE)) :
        getRunningDockerImages(dockerPs, TRUE)[k] = w

\* the registry has published its next tag for w's repository, and that tag is
\* now the newest one compatible with the running tag
newerPublished(w) ==
    LET id == normalizeDockerHubName(w.image)
        t  == findLatestMatchingTag(pushResults(<<>>, registry[id]), w.tag)
    IN  /\ runs(w)
        /\ registry[id] # InitialRegistry[id]
        /\ t = NextRelease[id].name
        /\ t # w.tag

notifiedOfRelease(w) ==
    newEmbed(w.image, w.tag, NextRelease[normalizeDockerHubName(w.image)].name)
        \in channel

\* C2: once the registry has published a newer compatible tag for a running
\* image, a notification naming that tag reaches the channel.
C2_NewReleaseNotified ==
    \A w \in Workloads : [](newerPublished(w) => <>notifiedOfRelease(w))

evaluated == lastEval.cycle # 0 /\ lastEval.latest # null

\* C3: an evaluation with a resolved latest tag queues a notification exactly
\* when the running tag differs from it and it is not the case that the image
\* was announced with that very tag.
C3_NotifyIff ==
    evaluated =>
        (lastEval.notify <=>
            /\ lastEval.runningTag # lastEval.latest
            /\ ~(lastEval.announced /\ lastEval.images = lastEval.latest))

\* announced with this very tag, the running tag still differs: nothing queued
C3_Witness ==
    /\ evaluated
    /\ lastEval.announced
    /\ lastEval.images = lastEval.latest
    /\ lastEval.runningTag # lastEval.latest
    /\ ~lastEval.notify

\* C4: after an evaluation with a resolved latest tag, versionData holds that
\* tag for the image and marks it announced; evaluating the same image,
\* running tag and latest tag again on that state notifies nothing and
\* changes nothing.
C4_Idempotent ==
    evaluated =>
        /\ imageOf(versionData, lastEval.image) = lastEval.latest
        /\ announcedOf(versionData, lastEval.image)
        /\ LET again == evaluateImage(versionData, lastEval.image,
                                      lastEval.runningTag, lastEval.latest)
           IN  ~again.notify /\ again.versionData = versionData

\* an image announced with an older tag is evaluated and notified
C4_Witness ==
    /\ evaluated
    /\ lastEval.notify
    /\ lastEval.images # null
    /\ lastEval.images # lastEval.latest

RECURSIVE concat(_)
\* the chunks joined back into one list
concat(chunks) ==
    IF Len(chunks) = 0 THEN <<>> ELSE Head(chunks) \o concat(Tail(chunks))

\* C5: no failure met in an iteration of the for loop rejects the call; a call
\* that leaves the loop has gone through an iteration for every running image
\* and hands every queued embed to channel.send; when it returns, all of them
\* are in the channel.
C5_PerImageIsolation ==
    \A c \in Cycles :
        /\ cycles[c].abortedBy \in {"none", "channel", "send"}
        /\ cycles[c].pc \in {"awaitSend", "done"} =>
              cycles[c].i = Len(cycles[c].runningImages) + 1
        /\ cycles[c].pc = "awaitSend" =>
              concat(cycles[c].sent) \o concat(cycles[c].chunks) = cycles[c].embeds
        /\ cycles[c].pc = "done" =>
              /\ concat(cycles[c].sent) = cycles[c].embeds
              /\ \A k \in 1..Len(cycles[c].embeds) : cycles[c].embeds[k] \in channel

\* a call has returned; the iteration for its first image met a failure, and
\* the embed queued for its second image is in the channel
C5_Witness ==
    \E c \in Cycles :
        /\ cycles[c].pc = "done"
        /\ cycles[c].errors = {1}
        /\ Len(cycles[c].runningImages) = 2
        /\ \E k \in 1..Len(cycles[c].embeds) :
              /\ cycles[c].embeds[k].image = cycles[c].runningImages[2].image
              /\ cycles[c].embeds[k] \in channel

\* C6: when a request of the pagination for an image was answered with a
\* non-success status, the match for that image returns null and no
\* notification is queued for it.
C6_FailedFetchMatchesNothing ==
    (lastEval.cycle # 0 /\ lastEval.fetchFailed) =>
        (lastEval.latest = null /\ ~lastEval.notify)

\* the whole tag list of a repository, as the pagination pushes it
wholeCatalog(catalog) == pushResults(<<>>, catalog)

\* getAllDockerHubTags is called by c in this step
Calls(c) ==
    /\ cycles'[c].i # cycles[c].i
    /\ cycles'[c].i <= Len(cycles'[c].runningImages)

\* C7: every cache entry was written by a pagination that read its last page,
\* and is a whole catalog of its repository; a failed request leaves the cache
\* as it is; a call for an identity with an entry returns that entry without a
\* request, a call for one without an entry requests page 1.
C7_CacheContract ==
    [][ /\ DOMAIN dockerHubCache' \subseteq completed'
        /\ \A id \in DOMAIN dockerHubCache' :
              dockerHubCache'[id] \in
                  { wholeCatalog(InitialRegistry[id]),
                    wholeCatalog(Append(InitialRegistry[id], NextRelease[id])) }
        /\ \A c \in Cycles :
              /\ (cycles[c].pc = "awaitFetch" /\ cycles'[c].fetchFailed)
                    => dockerHubCache' = dockerHubCache
              /\ Calls(c) =>
                    LET id == normalizeDockerHubName(
                                  cycles'[c].runningImages[cycles'[c].i].image)
                    IN  IF has(dockerHubCache, id)
                        THEN /\ cycles'[c].pc = "awaitMatch"
                             /\ cycles'[c].tags = dockerHubCache[id]
                        ELSE /\ cycles'[c].pc = "awaitFetch"
                             /\ cycles'[c].page = 1
      ]_vars

\* a call for an identity with an entry was answered from the cache
C7_Witness ==
    \E c \in Cycles :
        /\ cycles[c].pc = "awaitMatch"
        /\ cycles[c].fromCache
        /\ cycles[c].tags =
              dockerHubCache[normalizeDockerHubName(current(c).image)]

\* C8: no cache entry is assigned more than once.
C8_WriteOnce == \A id \in Repositories : cacheWrites[id] <= 1

----------------------------------------------------------------------------
(* More properties of findLatestMatchingTag (MatchSpec) *)

\* positions of the catalog whose tag coerces to a version
coercible == {k \in 1..Len(allTags) : valid(coerce(allTags[k].tag))}

\* position k holds the most recently updated coercible entry, and the first
\* such entry in catalog order
mostRecentFirst(k) ==
    /\ k \in coercible
    /\ \A j \in coercible :
          \/ getTime(allTags[j].updated) < getTime(allTags[k].updated)
          \/ (getTime(allTags[j].updated) = getTime(allTags[k].updated) /\ k <= j)

\* C11: for running tag "latest" the result is the tag of the coercible entry
\* with the most recent last-updated timestamp, the first in catalog order
\* among those sharing it; with no coercible entry the result is null.
C11_LatestMostRecent ==
    (matchResult # pending /\ baseTag = latest) =>
        IF coercible = {}
        THEN matchResult = null
        ELSE \E k \in coercible :
                mostRecentFirst(k) /\ matchResult = allTags[k].tag

\* an older entry first, then two coercible entries sharing the newest
\* timestamp: the first of the two is returned
C11_Witness ==
    /\ baseTag = latest
    /\ Len(allTags) = 3
    /\ coercible = {1, 2, 3}
    /\ allTags[1].updated = d1
    /\ allTags[2].updated = d2
    /\ allTags[3].updated = d2
    /\ matchResult = allTags[2].tag

\* C12: the result is null or the tag of a catalog entry that coerces to a
\* version; no entry that fails coercion is returned.
C12_OnlyCoercible ==
    matchResult # pending =>
        \/ matchResult = null
        \/ /\ \E k \in coercible : allTags[k].tag = matchResult
           /\ \A k \in 1..Len(allTags) :
                 allTags[k].tag = matchResult => k \in coercible

\* "edge" is the most recently updated entry and does not coerce: the older
\* "2.4" is returned for running tag "latest"
C12_Witness ==
    /\ baseTag = latest
    /\ Len(allTags) = 2
    /\ allTags[1] = [tag |-> <<"e", "d", "g", "e">>, updated |-> d2]
    /\ allTags[2] = [tag |-> <<"2", ".", "4">>, updated |-> d1]
    /\ matchResult = <<"2", ".", "4">>

----------------------------------------------------------------------------
(* More properties of the poll cycles (Spec) *)

\* call c leaves the await of getMatchingLatestTag in this step
Evaluates(c) == cycles[c].pc = "awaitMatch" /\ cycles'[c] # cycles[c]

\* the match call c awaits returns null
noMatch(c) == findLatestMatchingTag(cycles[c].tags, current(c).tag) = null

\* C13: when the match for an image returns null, no embed is queued, the
\* in-memory and the persisted version state stay as they are, and the call
\* goes on with the next image (or, behind the last one, with the sends)
\* without being rejected.
C13_NoMatchIsNoUpdate ==
    [][ \A c \in Cycles :
          (Evaluates(c) /\ noMatch(c)) =>
              /\ cycles'[c].embeds = cycles[c].embeds
              /\ versionData' = versionData
              /\ versionFile' = versionFile
              /\ cycles'[c].i = cycles[c].i + 1
              /\ cycles'[c].pc \in {"awaitFetch", "awaitMatch", "awaitSend", "done"}
              /\ cycles'[c].abortedBy = "none"
      ]_vars

\* the match for the first image of a call returned null, and the call has
\* gone on to its second image with nothing queued
C13_Witness ==
    \E c \in Cycles :
        /\ lastEval.cycle = c
        /\ lastEval.latest = null
        /\ lastEval.image = cycles[c].runningImages[1].image
        /\ cycles[c].i = 2
        /\ cycles[c].pc \in {"awaitFetch", "awaitMatch"}
        /\ cycles[c].embeds = <<>>

----------------------------------------------------------------------------
(* Properties of the sends at the end of a call (SendSpec) *)

\* the groups of call 1 in send order: those delivered, the one in flight and
\* those still to be sent
groups == cycles[1].sent \o cycles[1].chunks

\* C14: the queued embeds are handed to channel.send in groups of at most 10:
\* no group is empty, every group but the last holds exactly 10, the groups
\* joined in send order are the queued list, a call that returns has
\* delivered all of them, and with nothing queued nothing is sent.
C14_GroupsOfTen ==
    /\ \A g \in 1..Len(groups) : Len(groups[g]) >= 1 /\ Len(groups[g]) <= 10
    /\ \A g \in 1..(Len(groups) - 1) : Len(groups[g]) = 10
    /\ concat(groups) = cycles[1].embeds
    /\ cycles[1].pc = "done" => concat(cycles[1].sent) = cycles[1].embeds
    /\ cycles[1].embeds = <<>> => (groups = <<>> /\ cycles[1].pc = "done")

\* 25 embeds were queued: two groups of 10 and one of 5 have been delivered
C14_Witness ==
    /\ cycles[1].pc = "done"
    /\ Len(cycles[1].embeds) = 25
    /\ Len(cycles[1].sent) = 3
    /\ Len(cycles[1].sent[1]) = 10
    /\ Len(cycles[1].sent[2]) = 10
    /\ Len(cycles[1].sent[3]) = 5

\* what a restart of the process would load from the file
onDisk == loadVersionData(versionFile)

C16_SharedEntry ==
    evaluated =>
        \A w \in Workloads :
            (runs(w) /\ normalizeDockerHubName(w.image)
                          = normalizeDockerHubName(lastEval.image))
            => /\ imageOf(versionData, w.image) = lastEval.latest
               /\ announcedOf(versionData, w.image)

\* C17: for a running tag that begins with "latest" without being equal to
\* it, the result is the one of the recency branch: the most recently updated
\* coercible entry of the whole catalog.
C17_LatestPrefixUsesRecency ==
    (matchResult # pending /\ startsWith(baseTag, latest) /\ baseTag # latest) =>
        IF coercible = {}
        THEN matchResult = null
        ELSE \E k \in coercible :
                mostRecentFirst(k) /\ matchResult = allTags[k].tag

\* C18: when a call has ended, returned or rejected, every embed it queued
\* whose image the state marks as announced with the embed's latest tag has
\* been delivered to the channel.
C18_AnnouncedImpliesDelivered ==
    \A c \in Cycles :
        cycles[c].pc \in {"done", "failed"} =>
            \A k \in 1..Len(cycles[c].embeds) :
                (/\ announcedOf(versionData, cycles[c].embeds[k].image)
                 /\ imageOf(versionData, cycles[c].embeds[k].image)
                        = cycles[c].embeds[k].latest)
                => cycles[c].embeds[k] \in channel

\* C19: while the catalogs are unchanged, a call that started while the call
\* before it was suspended at an await queues no embed that the call before it
\* queues as well.
C19_OverlapNotifiesOnce ==
    registry = InitialRegistry =>
        \A c \in Cycles \ {1} :
            cycles[c].overlapped =>
                \A j \in 1..Len(cycles[c - 1].embeds), k \in 1..Len(cycles[c].embeds) :
                    cycles[c - 1].embeds[j] # cycles[c].embeds[k]

====
